---- MODULE Spec2Model ----
(***************************************************************************)
(* RC522 reader library (rc522_spi_library.py) and its polling application *)
(* (example.py, and the __main__ block of the library), as a state machine.*)
(*                                                                         *)
(* The session object owns a bus channel (spi), a GPIO controller          *)
(* (gpio_chip) and the reset line (rst_line).  A caller that holds the     *)
(* object may call initialize(), request(), anticoll() and cleanup() in    *)
(* any order; the process leaves through the finally block of main().      *)
(* The chip and the clock are the environment: every register read and     *)
(* every reading of the clock is a choice over small sets.                 *)
(***************************************************************************)
EXTENDS Integers, Sequences, FiniteSets

VARIABLES
    spi,          \* self.spi: "none" | "open" | "closed"
    gpio_chip,    \* self.gpio_chip: "none" | "open" | "closed"
    rst_line,     \* self.rst_line: "none" | "held" | "released"
    initialized,  \* self._initialized: "unset" | "false" | "true"
    reader,       \* the caller's variable `reader`: "none" | "bound"
    exited,       \* the process has left main()
    call,         \* the last operation called on the session
    fault,        \* the step of the last call that raised, or "none"
    stale,        \* operations the last call performed on a released line or closed channel
    issuedIn,     \* lifecycle state in which the last transceive operation was issued
    txControl,    \* TX_CONTROL_REG as left by antenna_on()
    bitFraming,   \* BIT_FRAMING_REG as last written
    pc,           \* position inside _communicate_with_card
    elapsed,      \* time.time() - start_time at the last reading of the clock, in ticks
    n,            \* the local n of _communicate_with_card (last COM_IRQ_REG read)
    chip,         \* what the chip answered to the reads after the polling loop
    comm,         \* the triple returned by _communicate_with_card
    ret,          \* the pair returned by request() / anticoll()
    ops,          \* the register accesses of _communicate_with_card, in order (a run
                  \* of repeated COM_IRQ_REG polls is written once)
    ran,          \* the statements the last cleanup() ran, in order
    interruptedAt,\* where _communicate_with_card stood when the process left main()
    appPc,        \* position of the polling application
    last_uid,     \* its variable last_uid
    printed,      \* the UID announced by its last pass through the loop, or None
    variant       \* which of the two polling loops of the repository it runs

vars == <<spi, gpio_chip, rst_line, initialized, reader, exited, call, fault, stale,
          issuedIn, txControl, bitFraming, pc, elapsed, n, chip, comm, ret, ops,
          ran, interruptedAt, appPc, last_uid, printed, variant>>

appVars == <<appPc, last_uid, printed, variant>>

-----------------------------------------------------------------------------
(* Constants of the source *)

OK         == 0
ERROR      == 1
TIMEOUT    == 3
AUTH_ERROR == 5

StatusCodes == {OK, ERROR, TIMEOUT, AUTH_ERROR}

COMMAND_REG     == 1
COM_IRQ_REG     == 4
ERROR_REG       == 6
FIFO_DATA_REG   == 9
FIFO_LEVEL_REG  == 10
CONTROL_REG     == 12
BIT_FRAMING_REG == 13
TX_CONTROL_REG  == 20

IDLE       == 0    \* RC522Commands.IDLE
TRANSCEIVE == 12   \* RC522Commands.TRANSCEIVE = 0x0C
REQUEST_A  == 38   \* MifareCommands.REQUEST_A = 0x26
ANTICOLL_1 == 147  \* MifareCommands.ANTICOLL_1 = 0x93
AnticollNvb == 32  \* second byte of the anticollision frame, 0x20

AllIrqFlags    == 127  \* COM_IRQ_REG <- 0x7F
FlushBit       == 128  \* FIFO_LEVEL_REG mask 0x80

WaitIrq        == 48   \* wait_irq = 0x30
TimerIrqBit    == 1    \* n & 0x01
ErrorMask      == 27   \* ERROR_REG & 0x1B
StartSend      == 128  \* BIT_FRAMING_REG mask 0x80
LastBitsMask   == 7    \* CONTROL_REG & 0x07
ShortFrame     == 7    \* request(): BIT_FRAMING_REG <- 0x07
FullFrame      == 0    \* anticoll(): BIT_FRAMING_REG <- 0x00
FifoCeiling    == 16   \* if fifo_size > 16: fifo_size = 16
AntennaMask    == 3    \* TX_CONTROL_REG mask 0x03
TimeoutTicks   == 2    \* timeout=0.1 s, one tick is 50 ms

(* Bounds of the model *)
MaxElapsed == 3        \* the clock is followed up to this many ticks after start_time
MaxLevel   == 17       \* FIFO levels 0..MaxLevel are enumerated (and 64, 255 besides)

-----------------------------------------------------------------------------
(* Bit operations on naturals, as Python's &, | and ^ on non-negative ints *)

RECURSIVE BitAnd(_, _)
BitAnd(a, b) ==
    IF a = 0 \/ b = 0 THEN 0
    ELSE (IF a % 2 = 1 /\ b % 2 = 1 THEN 1 ELSE 0) + 2 * BitAnd(a \div 2, b \div 2)

RECURSIVE BitXor(_, _)
BitXor(a, b) ==
    IF a = 0 THEN b
    ELSE IF b = 0 THEN a
    ELSE (((a % 2) + (b % 2)) % 2) + 2 * BitXor(a \div 2, b \div 2)

BitOr(a, b) == a + b - BitAnd(a, b)

\* _set_bit_mask: current | mask
SetBitMask(current, mask) == BitOr(current, mask)

\* (mutant) the mask not applied
ClearBitMaskKeeps(current, mask) == current

\* _clear_bit_mask: current & (~mask)
ClearBitMask(current, mask) == current - BitAnd(current, mask)

-----------------------------------------------------------------------------
(* The environment: what the chip may answer *)

\* COM_IRQ_REG values: nothing, timer only, receive done, receive done with timer
IrqValues == {0, 1, 32, 33}

\* ERROR_REG values: none, CRC error (outside the 0x1B mask), collision, protocol
ErrValues == {0, 4, 8, 1}

\* CONTROL_REG values (low three bits are the valid bits of the last byte)
ControlValues == 0 .. 7

\* FIFO_LEVEL_REG values
Levels == (0 .. MaxLevel) \cup {64, 255}

\* TX_CONTROL_REG values the chip may hold when antenna_on() reads it
TxValues == {128, 129, 131}

\* FIFO contents: a UID, a checksum byte, then whatever follows (zeros)
UIDs == { <<18, 52, 86, 120>>, <<4, 0, 255, 251>> }
ChecksumBytes == {8, 0, 9}
Frames == { u \o <<c>> : u \in UIDs, c \in ChecksumBytes }

\* the i-th read of FIFO_DATA_REG
FifoByte(frame, i) == IF i <= Len(frame) THEN frame[i] ELSE 0

\* Python's None and a present value
None    == {}
Some(x) == {x}
Val(o)  == CHOOSE x \in o : TRUE

\* nothing read from the chip after the polling loop
NoChip == [read |-> "none", err |-> 0, level |-> 0, control |-> 0, frame |-> <<>>]

-----------------------------------------------------------------------------
(* _communicate_with_card: the computation after the polling loop *)

\* (mutant) the zero-level adjustment left out
DrainCountNoFloor(fifo_size) ==
    IF fifo_size > FifoCeiling THEN FifoCeiling ELSE fifo_size

\* the number of FIFO_DATA_REG reads: fifo_size after the two adjustments
DrainCount(fifo_size) ==
    LET atLeastOne == IF fifo_size = 0 THEN 1 ELSE fifo_size
    IN  IF atLeastOne > FifoCeiling THEN FifoCeiling ELSE atLeastOne

\* (mutant) the bit length computed after the adjustments of fifo_size
BackLenAfterClamp(fifo_size, last_bits) ==
    IF last_bits # 0 THEN (DrainCount(fifo_size) - 1) * 8 + last_bits
    ELSE DrainCount(fifo_size) * 8

\* back_len, from the FIFO level as read and the valid bits of the last byte
BackLen(fifo_size, last_bits) ==
    IF last_bits # 0 THEN (fifo_size - 1) * 8 + last_bits ELSE fifo_size * 8

\* back_data: one FIFO_DATA_REG read per iteration of range(fifo_size)
BackData(frame, count) == [i \in 1 .. count |-> FifoByte(frame, i)]

\* (mutant) the timer bit of n not looked at
IrqStatusNoTimer(nv) == OK

\* status after the error register was found clean: the timer bit of n
IrqStatus(nv) == IF BitAnd(nv, TimerIrqBit) # 0 THEN ERROR ELSE OK

\* (mutant) the error register read before the deadline is looked at
ReadsMadeErrorFirst(command, e, err) ==
    IF e >= TimeoutTicks \/ BitAnd(err, ErrorMask) # 0 THEN "err"
    ELSE IF command = TRANSCEIVE THEN "all" ELSE "err"

\* the reads made after the polling loop, given the clock at the deadline check
\* and the error register: none on a timeout, ERROR_REG alone when it shows an
\* error, all of them otherwise
ReadsMade(command, e, err) ==
    IF e >= TimeoutTicks THEN "none"
    ELSE IF BitAnd(err, ErrorMask) # 0 THEN "err"
    ELSE IF command = TRANSCEIVE THEN "all" ELSE "err"

\* (mutant) the deadline checked after the FIFO was drained
CommunicateResultLateDeadline(command, e, nv, c) ==
    LET drained == [status |-> IrqStatus(nv),
                    data   |-> BackData(c.frame, DrainCount(c.level)),
                    len    |-> BackLen(c.level, BitAnd(c.control, LastBitsMask))]
    IN  IF BitAnd(c.err, ErrorMask) # 0
        THEN [status |-> ERROR, data |-> <<>>, len |-> 0]
        ELSE IF e >= TimeoutTicks THEN [drained EXCEPT !.status = TIMEOUT]
        ELSE drained

\* the returned triple; e is time.time() - start_time at the deadline check,
\* nv the last value of n, c the chip's answers
CommunicateResult(command, e, nv, c) ==
    IF e >= TimeoutTicks
    THEN [status |-> TIMEOUT, data |-> <<>>, len |-> 0]
    ELSE IF BitAnd(c.err, ErrorMask) # 0
    THEN [status |-> ERROR, data |-> <<>>, len |-> 0]
    ELSE IF command = TRANSCEIVE
    THEN [status |-> IrqStatus(nv),
          data   |-> BackData(c.frame, DrainCount(c.level)),
          len    |-> BackLen(c.level, BitAnd(c.control, LastBitsMask))]
    ELSE [status |-> IrqStatus(nv), data |-> <<>>, len |-> 0]

-----------------------------------------------------------------------------
(* _communicate_with_card: the register accesses it makes *)

\* the calls of _write_register, _read_register, _set_bit_mask and
\* _clear_bit_mask as entries of ops
Wr(reg, v)    == <<"write", reg, v>>
Rd(reg)       == <<"read", reg>>
Sb(reg, mask) == <<"set", reg, mask>>
Cb(reg, mask) == <<"clear", reg, mask>>

\* the value reg holds after the accesses of log, before being its value before
RECURSIVE RegAfter(_, _, _)
RegAfter(reg, log, before) ==
    IF log = <<>> THEN before
    ELSE LET a    == log[Len(log)]
             prev == RegAfter(reg, SubSeq(log, 1, Len(log) - 1), before)
         IN  IF a[1] = "read" \/ a[2] # reg THEN prev
             ELSE IF a[1] = "write" THEN a[3]
             ELSE IF a[1] = "set" THEN SetBitMask(prev, a[3])
             ELSE ClearBitMask(prev, a[3])

\* (mutant) the command started before the frame is in the FIFO
SetupOpsCommandFirst(command, send_data) ==
    <<Wr(COMMAND_REG, IDLE),
      Wr(COM_IRQ_REG, AllIrqFlags),
      Sb(FIFO_LEVEL_REG, FlushBit),
      Wr(COMMAND_REG, command)>>
    \o [i \in 1 .. Len(send_data) |-> Wr(FIFO_DATA_REG, send_data[i])]
    \o (IF command = TRANSCEIVE THEN <<Sb(BIT_FRAMING_REG, StartSend)>> ELSE <<>>)

\* the accesses up to the taking of start_time
SetupOps(command, send_data) ==
    <<Wr(COMMAND_REG, IDLE),
      Wr(COM_IRQ_REG, AllIrqFlags),
      Sb(FIFO_LEVEL_REG, FlushBit)>>
    \o [i \in 1 .. Len(send_data) |-> Wr(FIFO_DATA_REG, send_data[i])]
    \o <<Wr(COMMAND_REG, command)>>
    \o (IF command = TRANSCEIVE THEN <<Sb(BIT_FRAMING_REG, StartSend)>> ELSE <<>>)

\* one more poll of COM_IRQ_REG
PollOps(log) ==
    IF log # <<>> /\ log[Len(log)] = Rd(COM_IRQ_REG) THEN log
    ELSE Append(log, Rd(COM_IRQ_REG))

\* the accesses after the loop; reads tells how far the call goes (ReadsMade)
FinishOps(reads, level) ==
    <<Cb(BIT_FRAMING_REG, StartSend)>>
    \o (IF reads = "none" THEN <<>> ELSE <<Rd(ERROR_REG)>>)
    \o (IF reads = "all"
        THEN <<Rd(FIFO_LEVEL_REG), Rd(CONTROL_REG)>>
             \o [i \in 1 .. DrainCount(level) |-> Rd(FIFO_DATA_REG)]
        ELSE <<>>)

-----------------------------------------------------------------------------
(* request() and anticoll(): what they make of the engine's triple *)

\* (mutant) the length of the answer not looked at
RequestResultAnyLength(r) ==
    IF r.status # OK
    THEN [status |-> ERROR, payload |-> None]
    ELSE [status |-> r.status, payload |-> Some(r.data)]

\* (mutant) the engine's status handed on with the answer
RequestResultPassStatus(r) ==
    IF Len(r.data) # 2
    THEN [status |-> ERROR, payload |-> None]
    ELSE [status |-> r.status, payload |-> Some(r.data)]

RequestResult(r) ==
    IF r.status # OK \/ Len(r.data) # 2
    THEN [status |-> ERROR, payload |-> None]
    ELSE [status |-> r.status, payload |-> Some(r.data)]

\* checksum = 0; for i in range(4): checksum ^= back_data[i]
RECURSIVE ChecksumOf(_, _)
ChecksumOf(data, i) ==
    IF i = 0 THEN 0 ELSE BitXor(ChecksumOf(data, i - 1), data[i])

\* (mutant) the checksum comparison left out
AnticollResultNoChecksum(r) ==
    IF r.status = OK /\ Len(r.data) = 5
    THEN [status |-> OK, payload |-> Some(SubSeq(r.data, 1, 4))]
    ELSE [status |-> ERROR, payload |-> None]

AnticollResult(r) ==
    IF r.status = OK /\ Len(r.data) = 5
    THEN IF ChecksumOf(r.data, 4) # r.data[5]
         THEN [status |-> ERROR, payload |-> None]
         ELSE [status |-> OK, payload |-> Some(SubSeq(r.data, 1, 4))]
    ELSE [status |-> ERROR, payload |-> None]

ResultFor(op, r) == IF op = "request" THEN RequestResult(r) ELSE AnticollResult(r)

-----------------------------------------------------------------------------
(* Lifecycle: __init__, initialize, antenna_on, cleanup *)

\* the steps of a call in program order; a call raises at one step f or at none
InitSteps      == <<"reset", "soft_reset", "timer", "tx_auto", "mode", "antenna">>
ConstructSteps == <<"libs", "spi_open", "gpio_chip", "get_line", "line_request">> \o InitSteps
CleanupSteps   == <<"reset", "release", "chip_close", "spi_close">>

StepsOf(steps) == { steps[i] : i \in 1 .. Len(steps) }
StepIndex(steps, s) == CHOOSE i \in 1 .. Len(steps) : steps[i] = s

\* step s was started / ran to its end, in a call that raised at f
Attempted(steps, s, f) == f = "none" \/ StepIndex(steps, s) <= StepIndex(steps, f)
Completed(steps, s, f) == f = "none" \/ StepIndex(steps, s) < StepIndex(steps, f)

\* antenna_on: the register after the call, v being the value it read
AntennaOn(v) == IF BitAnd(v, AntennaMask) = 0 THEN SetBitMask(v, AntennaMask) ELSE v

\* what antenna_on() may read from TX_CONTROL_REG in a call that raised at f:
\* the register is read only when the call gets that far
AntennaReads(steps, f) ==
    IF Attempted(steps, "antenna", f) THEN TxValues ELSE {txControl}

\* the lifecycle state of the session as the spec names it
SessionState ==
    IF spi = "closed" THEN "Closed"
    ELSE IF initialized = "true" THEN "Initialized"
    ELSE "Uninitialized"

\* a new call starts: the previous call's locals and return values are gone
ForgetEngine ==
    /\ pc' = "idle"
    /\ elapsed' = 0
    /\ n' = None
    /\ chip' = NoChip
    /\ comm' = None
    /\ ret' = None
    /\ ops' = <<>>

\* reader = RC522SPILibrary(rst_pin=22): on any failure the exception leaves the
\* constructor and the caller's variable stays None
ConstructBody ==
    /\ ~exited /\ reader = "none" /\ call = "none"
    /\ \E f \in {"none"} \cup StepsOf(ConstructSteps) :
       \E v \in AntennaReads(ConstructSteps, f) :
        /\ call' = "__init__"
        /\ fault' = f
        /\ stale' = {}
        /\ spi' = IF Completed(ConstructSteps, "spi_open", f) THEN "open"
                  ELSE IF Completed(ConstructSteps, "libs", f) THEN "unopened"
                  ELSE "none"
        /\ gpio_chip' = IF Completed(ConstructSteps, "gpio_chip", f) THEN "open" ELSE "none"
        /\ rst_line' = IF Completed(ConstructSteps, "line_request", f) THEN "held"
                       ELSE IF Completed(ConstructSteps, "get_line", f) THEN "unrequested"
                       ELSE "none"
        /\ initialized' = IF f = "none" THEN "true"
                          ELSE IF Completed(ConstructSteps, "line_request", f) THEN "false"
                          ELSE "unset"
        /\ txControl' = IF Completed(ConstructSteps, "antenna", f) THEN AntennaOn(v)
                        ELSE txControl
        /\ reader' = IF f = "none" THEN "bound" ELSE "none"
    /\ ForgetEngine
    /\ UNCHANGED <<exited, issuedIn, bitFraming, ran, interruptedAt>>

Construct == ConstructBody /\ UNCHANGED appVars

\* what initialize() leaves in _initialized when it raised at f (or did not)
InitializedAfter(before, f) == IF f = "none" THEN "true" ELSE before

\* reader.initialize(), called again on a constructed session
Initialize ==
    /\ ~exited /\ reader = "bound" /\ pc = "idle"
    /\ \E f \in {"none"} \cup StepsOf(InitSteps) :
       \E v \in AntennaReads(InitSteps, f) :
        /\ call' = "initialize"
        /\ fault' = f
        /\ stale' = (IF rst_line # "held" THEN {"rst_set"} ELSE {})
                    \cup (IF spi # "open" /\ Attempted(InitSteps, "soft_reset", f)
                          THEN {"spi_xfer"} ELSE {})
        /\ initialized' = InitializedAfter(initialized, f)
        /\ txControl' = IF Completed(InitSteps, "antenna", f) THEN AntennaOn(v)
                        ELSE txControl
    /\ ForgetEngine
    /\ UNCHANGED <<spi, gpio_chip, rst_line, reader, exited, issuedIn, bitFraming,
                   ran, interruptedAt>>
    /\ UNCHANGED appVars

\* cleanup(): which of its statements run on this session
\* `if self._initialized:` inverted
CleanupRunsResetInverted(s) ==
    CASE s = "reset"      -> initialized # "true"
      [] s = "release"    -> rst_line # "none"
      [] s = "chip_close" -> gpio_chip # "none"
      [] s = "spi_close"  -> TRUE

CleanupRuns(s) ==
    CASE s = "reset"      -> initialized = "true"
      [] s = "release"    -> rst_line # "none"
      [] s = "chip_close" -> gpio_chip # "none"
      [] s = "spi_close"  -> TRUE

\* ... and which of them act on a line no longer held or a channel no longer open
CleanupStale(s) ==
    /\ CleanupRuns(s)
    /\ CASE s = "reset"      -> rst_line # "held"
         [] s = "release"    -> rst_line # "held"
         [] s = "chip_close" -> gpio_chip # "open"
         [] s = "spi_close"  -> spi # "open"

StaleName(s) ==
    CASE s = "reset"      -> "rst_set"
      [] s = "release"    -> "rst_release"
      [] s = "chip_close" -> "chip_close"
      [] s = "spi_close"  -> "spi_close"

\* the body of cleanup(); the hardware library may raise at a statement that acts
\* on a released line or closed channel (f), or let it pass
CleanupBody(f) ==
    /\ call' = "cleanup"
    /\ fault' = f
    /\ stale' = { StaleName(s) : s \in { t \in StepsOf(CleanupSteps) :
                      Attempted(CleanupSteps, t, f) /\ CleanupStale(t) } }
    /\ rst_line' = IF CleanupRuns("release") /\ Completed(CleanupSteps, "release", f)
                   THEN "released" ELSE rst_line
    /\ gpio_chip' = IF CleanupRuns("chip_close") /\ Completed(CleanupSteps, "chip_close", f)
                    THEN "closed" ELSE gpio_chip
    /\ spi' = IF Completed(CleanupSteps, "spi_close", f) THEN "closed" ELSE spi
    /\ ran' = SelectSeq(CleanupSteps,
                        LAMBDA t : CleanupRuns(t) /\ Completed(CleanupSteps, t, f))
    /\ UNCHANGED <<initialized, txControl>>

CleanupFaults == {"none"} \cup { s \in StepsOf(CleanupSteps) : CleanupStale(s) }

\* reader.cleanup()
Cleanup ==
    /\ ~exited /\ reader = "bound" /\ pc = "idle"
    /\ \E f \in CleanupFaults : CleanupBody(f)
    /\ ForgetEngine
    /\ UNCHANGED <<reader, exited, issuedIn, bitFraming, interruptedAt>>
    /\ UNCHANGED appVars

\* the process leaves main(): `finally: if reader: reader.cleanup()`.  An
\* interrupt may take this path from inside the polling loop too.
Exit ==
    /\ ~exited
    /\ exited' = TRUE
    /\ interruptedAt' = pc
    /\ IF reader = "bound"
       THEN \E f \in CleanupFaults : CleanupBody(f)
       ELSE UNCHANGED <<spi, gpio_chip, rst_line, initialized, txControl, call, fault,
                        stale, ran>>
    /\ ForgetEngine
    /\ UNCHANGED <<reader, issuedIn, bitFraming>>
    /\ UNCHANGED appVars

-----------------------------------------------------------------------------
(* request(), anticoll() and the steps of _communicate_with_card *)

\* The call writes BIT_FRAMING_REG, then _communicate_with_card sets the command
\* register to idle, clears the interrupt flags, flushes the FIFO, writes the
\* frame and the command, sets the start-send bit and takes start_time.  A bus
\* transfer on a closed channel raises in the transport; any of these transfers
\* may fail, after k of them were made.
StartTransceiveBody(op, framing, send_data) ==
    /\ ~exited /\ reader = "bound" /\ pc = "idle"
    /\ call' = op
    /\ issuedIn' = SessionState
    /\ elapsed' = 0
    /\ n' = None
    /\ chip' = NoChip
    /\ comm' = None
    /\ ret' = None
    /\ IF spi # "open"
       THEN /\ stale' = {"spi_xfer"}
            /\ fault' = "transport"
            /\ pc' = "idle"
            /\ UNCHANGED bitFraming
            /\ ops' = <<>>
       ELSE LET accesses == <<Wr(BIT_FRAMING_REG, framing)>>
                            \o SetupOps(TRANSCEIVE, send_data)
            IN  \E k \in 0 .. Len(accesses) :
                /\ stale' = {}
                /\ fault' = IF k < Len(accesses) THEN "transport" ELSE "none"
                /\ pc' = IF k < Len(accesses) THEN "idle" ELSE "poll"
                /\ bitFraming' = RegAfter(BIT_FRAMING_REG, SubSeq(accesses, 1, k),
                                          bitFraming)
                /\ ops' = SubSeq(accesses, 2, k)
    /\ UNCHANGED <<spi, gpio_chip, rst_line, initialized, reader, exited, txControl,
                   ran, interruptedAt>>

StartTransceive(op, framing, send_data) ==
    StartTransceiveBody(op, framing, send_data) /\ UNCHANGED appVars

Request  == StartTransceive("request", ShortFrame, <<REQUEST_A>>)
Anticoll == StartTransceive("anticoll", FullFrame, <<ANTICOLL_1, AnticollNvb>>)

\* `while time.time() - start_time < timeout` found true at clock reading e:
\* n = COM_IRQ_REG; leave the loop when n & wait_irq
PollRead ==
    /\ pc = "poll"
    /\ \E e \in elapsed .. MaxElapsed, v \in IrqValues :
        /\ e < TimeoutTicks
        /\ elapsed' = e
        /\ n' = Some(v)
        /\ pc' = IF BitAnd(v, WaitIrq) # 0 THEN "finish" ELSE "poll"
    /\ ops' = PollOps(ops)
    /\ UNCHANGED <<spi, gpio_chip, rst_line, initialized, reader, exited, call, fault,
                   stale, issuedIn, txControl, bitFraming, chip, comm, ret,
                   ran, interruptedAt>>
    /\ UNCHANGED appVars

\* (mutant) a loop with no deadline: `while True`
PollExpireNever == FALSE /\ UNCHANGED vars

\* the loop condition found false at clock reading e
PollExpire ==
    /\ pc = "poll"
    /\ \E e \in elapsed .. MaxElapsed :
        /\ e >= TimeoutTicks
        /\ elapsed' = e
        /\ pc' = "finish"
    /\ UNCHANGED <<spi, gpio_chip, rst_line, initialized, reader, exited, call, fault,
                   stale, issuedIn, txControl, bitFraming, n, chip, comm, ret, ops,
                   ran, interruptedAt>>
    /\ UNCHANGED appVars

\* what the chip answers to the reads the call makes after the loop, the FIFO
\* level and the control register being drawn from levels and controls
AnswersFrom(reads, err, levels, controls) ==
    IF reads = "none" THEN {NoChip}
    ELSE IF reads = "err" THEN {[NoChip EXCEPT !.read = "err", !.err = err]}
    ELSE { [read |-> "all", err |-> err, level |-> l, control |-> c, frame |-> fr] :
               l \in levels, c \in controls, fr \in Frames }

Answers(reads, err) == AnswersFrom(reads, err, Levels, ControlValues)

\* after the loop: clear the start-send bit, read the clock again (e), then the
\* error register, the FIFO level, the control register and the FIFO; return
\* through request() or anticoll()
FinishWith(levels, controls) ==
    /\ pc = "finish"
    /\ \E e \in elapsed .. MaxElapsed, err \in ErrValues :
        \E c \in AnswersFrom(ReadsMade(TRANSCEIVE, e, err), err, levels, controls) :
            LET nv == IF n = None THEN 0 ELSE Val(n)
                r  == CommunicateResult(TRANSCEIVE, e, nv, c)
            IN  /\ elapsed' = e
                /\ chip' = c
                /\ comm' = Some(r)
                /\ ret' = Some(ResultFor(call, r))
                /\ ops' = ops \o FinishOps(ReadsMade(TRANSCEIVE, e, err), c.level)
    /\ bitFraming' = RegAfter(BIT_FRAMING_REG, FinishOps("none", 0), bitFraming)
    /\ pc' = "idle"
    /\ UNCHANGED <<spi, gpio_chip, rst_line, initialized, reader, exited, call, fault,
                   stale, issuedIn, txControl, n, ran, interruptedAt>>
    /\ UNCHANGED appVars

Finish == FinishWith(Levels, ControlValues)

-----------------------------------------------------------------------------

-----------------------------------------------------------------------------
(* The polling application: main() of example.py and the __main__ block of *)
(* rc522_spi_library.py                                                     *)

Variants == {"example", "library"}

\* what the chip answers to the application's cards: an empty FIFO, the two bytes
\* of an ATQA, the five bytes of a UID with its checksum, all bits valid
CardLevels   == {0, 2, 5}
CardControls == {0}

\* `if uid != last_uid:` without the comparison
AnnouncedEveryRead(last, r) == IF r.status = OK THEN r.payload ELSE None

\* the UID a pass through the loop prints after anticoll() returned r, if any
Announced(last, r) ==
    IF r.status = OK /\ r.payload # last THEN r.payload ELSE None

\* last_uid after anticoll() returned r: a new UID is remembered; on a failure
\* example.py leaves it alone and the __main__ loop clears it
RememberedAfterAnticoll(v, last, r) ==
    IF r.status = OK
    THEN IF r.payload # last THEN r.payload ELSE last
    ELSE IF v = "library" THEN None ELSE last

\* reader = RC522SPILibrary(rst_pin=22); last_uid = None
AppConstruct ==
    /\ appPc = "start"
    /\ ConstructBody
    /\ appPc' = IF reader' = "bound" THEN "loop" ELSE "raised"
    /\ last_uid' = None
    /\ UNCHANGED <<printed, variant>>

\* top of `while True:`: status, _ = reader.request()
AppRequest ==
    /\ appPc = "loop"
    /\ StartTransceiveBody("request", ShortFrame, <<REQUEST_A>>)
    /\ appPc' = IF fault' = "none" THEN "request" ELSE "raised"
    /\ printed' = None
    /\ UNCHANGED <<last_uid, variant>>

\* request() returned: on OK the loop calls reader.anticoll(), otherwise it
\* forgets the card, sleeps and starts over
AppAfterRequest ==
    /\ appPc = "request" /\ call = "request" /\ pc = "idle" /\ ret # None
    /\ IF Val(ret).status = OK
       THEN /\ StartTransceiveBody("anticoll", FullFrame, <<ANTICOLL_1, AnticollNvb>>)
            /\ appPc' = IF fault' = "none" THEN "anticoll" ELSE "raised"
            /\ UNCHANGED <<last_uid, printed, variant>>
       ELSE /\ last_uid' = None
            /\ appPc' = "loop"
            /\ UNCHANGED <<spi, gpio_chip, rst_line, initialized, reader, exited, call,
                           fault, stale, issuedIn, txControl, bitFraming, pc, elapsed,
                           n, chip, comm, ret, ops, ran, interruptedAt, printed, variant>>

\* anticoll() returned: announce a new card, sleep and start over
AppAfterAnticoll ==
    /\ appPc = "anticoll" /\ call = "anticoll" /\ pc = "idle" /\ ret # None
    /\ printed' = Announced(last_uid, Val(ret))
    /\ last_uid' = RememberedAfterAnticoll(variant, last_uid, Val(ret))
    /\ appPc' = "loop"
    /\ UNCHANGED <<spi, gpio_chip, rst_line, initialized, reader, exited, call,
                   fault, stale, issuedIn, txControl, bitFraming, pc, elapsed,
                   n, chip, comm, ret, ops, ran, interruptedAt, variant>>

\* the code after the polling loop of a call the application made
AppFinish == FinishWith(CardLevels, CardControls)

-----------------------------------------------------------------------------
(* Specifications *)

Start ==
    /\ spi = "none"
    /\ gpio_chip = "none"
    /\ rst_line = "none"
    /\ initialized = "unset"
    /\ reader = "none"
    /\ exited = FALSE
    /\ call = "none"
    /\ fault = "none"
    /\ stale = {}
    /\ issuedIn = "none"
    /\ txControl = 128
    /\ bitFraming = 0
    /\ pc = "idle"
    /\ elapsed = 0
    /\ n = None
    /\ chip = NoChip
    /\ comm = None
    /\ ret = None
    /\ ops = <<>>
    /\ ran = <<>>
    /\ interruptedAt = "none"
    /\ appPc = "start"
    /\ last_uid = None
    /\ printed = None

Init == Start /\ variant = "example"

Next ==
    \/ Construct
    \/ Initialize
    \/ Cleanup
    \/ Exit
    \/ Request
    \/ Anticoll
    \/ PollRead
    \/ PollExpire
    \/ Finish

\* any caller of the library, and the process leaving main()
Spec == Init /\ [][Next]_vars

LiveNext ==
    \/ Construct
    \/ Initialize
    \/ Cleanup
    \/ Exit
    \/ Request
    \/ Anticoll
    \/ PollRead
    \/ PollExpire
    \/ AppFinish

\* The same caller with the two things the process and its clock guarantee: the
\* clock keeps advancing, so a loop that goes on polling comes to read it at or
\* past the deadline (PollExpire), and the code after the loop runs (AppFinish).
LiveSpec == Init /\ [][LiveNext]_vars /\ WF_vars(PollExpire) /\ WF_vars(AppFinish)

AppInit == Start /\ variant \in Variants

AppNext ==
    \/ AppConstruct
    \/ AppRequest
    \/ AppAfterRequest
    \/ AppAfterAnticoll
    \/ PollRead
    \/ PollExpire
    \/ AppFinish
    \/ Exit

\* the polling application, interrupted at any point
AppSpec == AppInit /\ [][AppNext]_vars

-----------------------------------------------------------------------------
(* Properties *)

\* the last call was op and it returned a pair
Returned(op) == call = op /\ pc = "idle" /\ ret # None

Failure == [status |-> ERROR, payload |-> None]

Max(a, b) == IF a >= b THEN a ELSE b
Min(a, b) == IF a <= b THEN a ELSE b

\* the XOR of the four bytes of a UID
XorOfUid(u) == BitXor(BitXor(BitXor(u[1], u[2]), u[3]), u[4])

\* C1 as stated: whenever the engine delivers five bytes U ++ <<C>>, anticoll()
\* returns (OK, U) if and only if C is the XOR of U's bytes, and (ERROR, None)
\* otherwise, whatever status the engine reported.
C1_ChecksumAloneDecides ==
    Returned("anticoll") /\ Len(Val(comm).data) = 5 =>
        LET d == Val(comm).data
            u == SubSeq(d, 1, 4)
        IN  IF d[5] = XorOfUid(u)
            THEN Val(ret) = [status |-> OK, payload |-> Some(u)]
            ELSE Val(ret) = Failure

\* C1 amended: whenever the engine delivers five bytes U ++ <<C>>, anticoll()
\* returns (OK, U) if and only if the engine's status is OK and C is the XOR of
\* U's bytes; in every other case, a wrong checksum under status OK among them,
\* it returns (ERROR, None).
C1_ChecksumAndStatusDecide ==
    Returned("anticoll") /\ Len(Val(comm).data) = 5 =>
        LET d == Val(comm).data
            u == SubSeq(d, 1, 4)
        IN  IF Val(comm).status = OK /\ d[5] = XorOfUid(u)
            THEN Val(ret) = [status |-> OK, payload |-> Some(u)]
            ELSE Val(ret) = Failure

\* the UID 12 34 56 78 arrived with its checksum 08 under status OK and
\* anticoll() returned it
C1_Witness ==
    /\ Returned("anticoll")
    /\ Val(comm).status = OK
    /\ Val(comm).data = <<18, 52, 86, 120, 8>>
    /\ Val(ret) = [status |-> OK, payload |-> Some(<<18, 52, 86, 120>>)]

\* C2: request() returns OK, with the two drained bytes as payload, only when
\* the transceive drained exactly two bytes; for any other number of drained
\* bytes it returns (ERROR, None).
C2_RequestOkOnlyWithTwoBytes ==
    Returned("request") =>
        LET r == Val(comm)
        IN  /\ Val(ret).status = OK => Len(r.data) = 2 /\ Val(ret).payload = Some(r.data)
            /\ Len(r.data) # 2 => Val(ret) = Failure

\* request() returned after the engine drained three bytes under status OK
C2_Witness ==
    /\ Returned("request")
    /\ Val(comm).status = OK
    /\ Len(Val(comm).data) = 3
    /\ Val(ret) = Failure

\* C3: whenever _communicate_with_card returns TIMEOUT, the data it returns is
\* empty and the bit length is 0.
C3_TimeoutHasNoData ==
    comm # None /\ Val(comm).status = TIMEOUT =>
        Val(comm).data = <<>> /\ Val(comm).len = 0

\* the engine returned TIMEOUT after the loop had seen the done flag
C3_Witness ==
    /\ comm # None
    /\ Val(comm).status = TIMEOUT
    /\ n # None
    /\ BitAnd(Val(n), WaitIrq) # 0

\* C4: no transceive operation is issued on a session that is not Initialized.
C4_TransceiveOnlyWhileInitialized ==
    issuedIn \in {"none", "Initialized"}

\* C5: cleanup() never acts on a reset line already released or a channel
\* already closed, and raises nothing, however often it is called.
C5_CleanupIdempotent ==
    call = "cleanup" => stale = {} /\ fault = "none"

\* C6: when initialize() fails at any step, the session is not marked
\* Initialized afterwards, also when it was marked Initialized before the call.
C6_FailedInitializeNotInitialized ==
    call \in {"__init__", "initialize"} /\ fault # "none" => initialized # "true"

\* C7: when construction fails, and on every exit of the process, no bus
\* channel, GPIO controller or reset line is still held.
C7_FailedSetupHoldsNothing ==
    (call = "__init__" /\ fault # "none") \/ exited =>
        spi # "open" /\ gpio_chip # "open" /\ rst_line # "held"

\* C8: request() and anticoll() return only OK or ERROR; an engine status of
\* TIMEOUT or ERROR, or an answer of the wrong length, gives (ERROR, None); and
\* the payload is None exactly when the status is ERROR.
C8_FailuresCollapseToError ==
    \A op \in {"request", "anticoll"} :
        Returned(op) =>
            LET r == Val(comm)
                wanted == IF op = "request" THEN 2 ELSE 5
            IN  /\ Val(ret).status \in StatusCodes \ {TIMEOUT, AUTH_ERROR}
                /\ r.status \in {TIMEOUT, ERROR} => Val(ret) = Failure
                /\ Len(r.data) # wanted => Val(ret) = Failure
                /\ Val(ret).payload = None <=> Val(ret).status = ERROR

\* the engine reported the chip timer (status ERROR) with a two-byte answer and
\* request() returned
C8_Witness ==
    /\ Returned("request")
    /\ Val(comm).status = ERROR
    /\ Len(Val(comm).data) = 2
    /\ Val(ret) = Failure

\* C9: after a completed TRANSCEIVE the number of bytes drained, the length of
\* the returned data, is max(1, min(16, fifo_level)).
C9_DrainCountClamped ==
    chip.read = "all" =>
        Len(Val(comm).data) = Max(1, Min(16, chip.level))

\* the chip reported an empty FIFO and one byte was drained
C9_Witness ==
    /\ chip.read = "all"
    /\ chip.level = 0
    /\ Len(Val(comm).data) = 1

DoneSeen == n # None /\ BitAnd(Val(n), WaitIrq) # 0

\* C14: a call whose polling loop saw the done flag before the deadline does not
\* return TIMEOUT.
C14_DoneInTimeIsNoTimeout ==
    comm # None /\ DoneSeen => Val(comm).status # TIMEOUT

\* C15: when the done flag came in time, the error register shows none of the
\* 0x1B bits and the timer bit is set in n, the engine returns ERROR together
\* with the drained bytes and the computed bit length.
C15_ChipTimerKeepsData ==
    chip.read = "all" /\ DoneSeen /\ BitAnd(Val(n), TimerIrqBit) # 0 =>
        LET r == Val(comm)
        IN  /\ r.status = ERROR
            /\ Len(r.data) = Max(1, Min(16, chip.level))
            /\ \A i \in 1 .. Len(r.data) : r.data[i] = FifoByte(chip.frame, i)
            /\ r.len = IF chip.control # 0
                       THEN (chip.level - 1) * 8 + chip.control
                       ELSE chip.level * 8

\* the timer bit came with the done flag and five bytes were drained
C15_Witness ==
    /\ chip.read = "all"
    /\ n = Some(33)
    /\ Val(comm) = [status |-> ERROR, data |-> <<18, 52, 86, 120, 8>>, len |-> 40]

\* C17: after every successful initialize() both driver-enable bits of
\* TX_CONTROL_REG are set, whatever the register held before.
C17_AntennaOnAfterInitialize ==
    call \in {"__init__", "initialize"} /\ fault = "none" =>
        BitAnd(txControl, AntennaMask) = AntennaMask

\* C20: the returned bit length lies between 0 and eight times the number of
\* returned bytes.
C20_BitLengthWithinData ==
    comm # None =>
        Val(comm).len >= 0 /\ Val(comm).len <= 8 * Len(Val(comm).data)

\* the indices of ops at which the access a was made
At(a) == { i \in 1 .. Len(ops) : ops[i] = a }

SetMax(S) == CHOOSE x \in S : \A y \in S : y <= x

\* the writing accesses to BIT_FRAMING_REG
FramingWrites ==
    { i \in 1 .. Len(ops) : ops[i][1] # "read" /\ ops[i][2] = BIT_FRAMING_REG }

\* C12: on every outcome that returns, the start-send bit is cleared after the
\* polling ended, the register holds it cleared at the return, and the clearing
\* is the last write to BIT_FRAMING_REG in the call.
C12_StartSendCleared ==
    comm # None =>
        /\ BitAnd(bitFraming, StartSend) = 0
        /\ At(Cb(BIT_FRAMING_REG, StartSend)) # {}
        /\ SetMax(FramingWrites) \in At(Cb(BIT_FRAMING_REG, StartSend))
        /\ \A i \in At(Rd(COM_IRQ_REG)) : i < SetMax(FramingWrites)

\* request() timed out: the bit was set, the loop polled, and the register is
\* back at the short-frame value
C12_Witness ==
    /\ Returned("request")
    /\ Val(comm).status = TIMEOUT
    /\ At(Sb(BIT_FRAMING_REG, StartSend)) # {}
    /\ At(Rd(COM_IRQ_REG)) # {}
    /\ bitFraming = 7

\* the last access of the polling phase: the last poll, or the setting of the
\* start-send bit when the loop did not poll at all
LoopEnd == SetMax(At(Rd(COM_IRQ_REG)) \cup At(Sb(BIT_FRAMING_REG, StartSend)))

\* C13: when the loop never saw the done flag, the call returns exactly
\* (TIMEOUT, [], 0) and reads none of ERROR_REG, FIFO_LEVEL_REG, CONTROL_REG and
\* FIFO_DATA_REG after the loop.
C13_TimeoutReadsNothing ==
    comm # None /\ ~DoneSeen =>
        /\ Val(comm) = [status |-> TIMEOUT, data |-> <<>>, len |-> 0]
        /\ \A i \in 1 .. Len(ops) :
              i > LoopEnd =>
                  ops[i] \notin { Rd(ERROR_REG), Rd(FIFO_LEVEL_REG),
                                  Rd(CONTROL_REG), Rd(FIFO_DATA_REG) }

\* the loop polled, saw only the timer bit, and the deadline passed
C13_Witness ==
    /\ comm # None
    /\ n = Some(1)
    /\ Val(comm).status = TIMEOUT
    /\ ops[Len(ops)] = Cb(BIT_FRAMING_REG, StartSend)

\* the accesses the spec lists for the start of a call with this frame
ExpectedSetup(frame) ==
    <<<<"write", COMMAND_REG, IDLE>>,
      <<"write", COM_IRQ_REG, 127>>,
      <<"set", FIFO_LEVEL_REG, 128>>>>
    \o [i \in 1 .. Len(frame) |-> <<"write", FIFO_DATA_REG, frame[i]>>]
    \o <<<<"write", COMMAND_REG, TRANSCEIVE>>,
         <<"set", BIT_FRAMING_REG, 128>>>>

FrameOf(op) == IF op = "request" THEN <<38>> ELSE <<147, 32>>

\* C16: a call makes its accesses in this order: command register to idle,
\* interrupt flags cleared, FIFO flushed, each byte of the frame written in
\* order, the command written, the start-send bit set (the command is
\* TRANSCEIVE); no poll of COM_IRQ_REG comes before the command is written.
C16_SetupOrder ==
    call \in {"request", "anticoll"} =>
        LET expected == ExpectedSetup(FrameOf(call))
        IN  /\ \A i \in 1 .. Min(Len(ops), Len(expected)) : ops[i] = expected[i]
            /\ pc # "idle" \/ comm # None => Len(ops) >= Len(expected)
            /\ \A i \in At(Rd(COM_IRQ_REG)) :
                  \E j \in At(<<"write", COMMAND_REG, TRANSCEIVE>>) : j < i

\* anticoll() is polling after its setup
C16_Witness ==
    /\ call = "anticoll"
    /\ pc = "poll"
    /\ ops = ExpectedSetup(<<147, 32>>) \o <<Rd(COM_IRQ_REG)>>

\* C19: with the clock advancing, a call that entered the polling loop returns
\* (or the process is interrupted), whatever the chip answers; and the loop is
\* left at the first reading of the clock at or past the deadline, with no
\* further poll.
C19_CommunicateTerminates ==
    /\ (pc = "poll") ~> (pc = "idle")
    /\ [][pc = "poll" /\ elapsed' >= TimeoutTicks =>
              pc' # "poll" /\ n' = n /\ ops' = ops]_vars

\* the chip never raised the done flag and the call returned all the same
C19_Witness ==
    /\ pc = "idle"
    /\ comm # None
    /\ n = Some(0)
    /\ elapsed >= TimeoutTicks

\* C11: in the polling application a pass through the loop announces the UID
\* anticoll() returned exactly when the call succeeded and the UID differs from
\* the remembered one, and then remembers it; a success with the remembered UID
\* announces nothing and keeps the memory; a failed request() clears the memory,
\* and nothing else in the loop before the next anticoll() result touches it.
C11_AnnounceOnlyNewUid ==
    [][ /\ (appPc = "anticoll" /\ appPc' = "loop") =>
              /\ (printed' # None) <=>
                     (Val(ret).status = OK /\ Val(ret).payload # last_uid)
              /\ printed' # None =>
                     printed' = Val(ret).payload /\ last_uid' = printed'
              /\ Val(ret).status = OK => last_uid' = Val(ret).payload
        /\ (appPc = "request" /\ appPc' = "loop") =>
              /\ Val(ret).status # OK
              /\ last_uid' = None
              /\ printed' = None
        /\ appPc' # "loop" => last_uid' = last_uid ]_vars

\* the same card read a second time in a row: nothing announced
C11_Witness ==
    /\ appPc = "loop"
    /\ call = "anticoll"
    /\ ret # None
    /\ Val(ret).status = OK
    /\ Val(ret).payload = last_uid
    /\ printed = None

\* C18: when the polling application has left main() with a reader it had
\* constructed, wherever the interrupt found it, cleanup() ran every statement
\* once and in order, none of them raised or acted on a stale handle, the reset
\* line is released and the GPIO chip and the bus channel are closed.
C18_InterruptedAppCleansUp ==
    (exited /\ reader = "bound") =>
        /\ call = "cleanup"
        /\ fault = "none"
        /\ stale = {}
        /\ ran = CleanupSteps
        /\ rst_line = "released"
        /\ gpio_chip = "closed"
        /\ spi = "closed"

\* interrupted inside the busy-wait of a request()
C18_Witness ==
    /\ exited
    /\ reader = "bound"
    /\ appPc = "request"
    /\ interruptedAt = "poll"
    /\ ran = CleanupSteps

====
